---- MODULE Spec2Model ----
(***************************************************************************)
(* The database service of packages/database/src/Database.ts:              *)
(*   - matchPgError, the classifier of thrown driver errors;               *)
(*   - execute and txWrapper, the two execution capabilities;              *)
(*   - transaction, the bridge between the driver's promise-based          *)
(*     transaction primitive and the Effect runtime;                       *)
(*   - the startup probe of makeService.                                   *)
(*                                                                         *)
(* JavaScript values are records with a "tag" field.  An Effect handed to  *)
(* resume, and the outcome of a fiber, are represented by the Exit they    *)
(* evaluate to.                                                            *)
(***************************************************************************)
EXTENDS Naturals, Sequences, FiniteSets

VARIABLES
  \* one call of each capability on the same operation (SpecExec)
  op,          \* the operation fn handed to execute / txWrapper
  matchOut,    \* what matchPgError returned for the value fn throws
  execOut,     \* the Exit of execute(fn)
  txOut,       \* the Exit of txWrapper(fn)
  \* one call of transaction(body) (Spec)
  outer,       \* the fiber suspended in Effect.async: its state and Exit
  drv,         \* where the driver's db.transaction call stands
  drvPromise,  \* the promise db.transaction returned
  cb,          \* the promise of the async callback handed to the driver
  catchRan,    \* whether the .catch handler has run
  result,      \* the Exit of the body fiber (runPromiseExit), or None
  nOps,        \* operations the body has issued through txWrapper
  txWrites,    \* writes issued on the TransactionClient and pending in its transaction
  txPending,   \* operations called on the TransactionClient whose promise has not settled
  nLate,       \* operations run through txWrapper while no body was running
  txFailure,   \* the failure of a txWrapper Effect the body fiber has yet to deal with, or None
  visible,     \* writes durably visible in the database
  \* makeService up to readiness (SpecStartup)
  pc,          \* position in makeService ("probing": a probe sent, its promise pending)
  pool,        \* the pg.Pool: "none", "open" or "ended"
  nFail,       \* the probe fails this many times before it succeeds
  attempts,    \* pool.query("SELECT 1") calls made
  schedOut,    \* next output of Schedule.spaced (repetitions so far)
  delay,       \* milliseconds the retry sleeps before the next attempt
  logs,        \* log lines, in order
  elapsed,     \* milliseconds slept between attempts so far
  \* the scope of the service (Layer.scoped)
  scope,       \* "open", "closing" (finalizers running) or "closed"
  finalizers,  \* the finalizers registered in the scope, last registered first
  poolCreated, \* calls of new pg.Pool
  poolEnded,   \* calls of pool.end
  \* setupConnectionListeners (SpecWatch)
  watcher,     \* per task: its state, its Exit, the error events its listener got
  listeners,   \* the "error" listeners on the pool, by the task that added them
  nEvents,     \* "error" events the pool has emitted
  \* makeQuery (SpecQuery)
  queryCalls,  \* the calls of the query definition, in order
  \* operations on one TransactionClient (SpecOps)
  bodyMode,    \* how the body issues its operations
  opsIssued,   \* the operations whose fn(tx) has been called, in order
  opsInflight, \* the operations whose promise is pending
  opsSettled   \* the operations whose promise has settled, in order

execVars == <<op, matchOut, execOut, txOut>>
txVars == <<outer, drv, drvPromise, cb, catchRan, result, nOps, txWrites, txPending, nLate, txFailure, visible>>
startVars == <<pc, pool, nFail, attempts, schedOut, delay, logs, elapsed>>
scopeVars == <<scope, finalizers, poolCreated, poolEnded>>
watchVars == <<watcher, listeners, nEvents>>
queryVars == <<queryCalls>>
opsVars == <<bodyMode, opsIssued, opsInflight, opsSettled>>
vars == <<op, matchOut, execOut, txOut,
          outer, drv, drvPromise, cb, catchRan, result, nOps, txWrites, txPending, nLate, txFailure, visible,
          pc, pool, nFail, attempts, schedOut, delay, logs, elapsed,
          scope, finalizers, poolCreated, poolEnded,
          watcher, listeners, nEvents, queryCalls,
          bodyMode, opsIssued, opsInflight, opsSettled>>

---------------------------------------------------------------------------
(* Values *)

None == [tag |-> "None"]
Null == [tag |-> "null"]

\* a value a query resolves with
Val(id) == [tag |-> "Val", id |-> id]
\* an instance of pg.DatabaseError with the given SQLSTATE code
PgError(code) == [tag |-> "PgError", code |-> code]
\* any other thrown value; it may carry a code property all the same
PlainError(code) == [tag |-> "Error", code |-> code]
\* a typed error of the caller's own
UserError(id) == [tag |-> "UserError", id |-> id]
\* an error object as Effect.fail hands it on inside a span: a proxy of obj
Captured(obj) == [tag |-> "Captured", original |-> obj]

DatabaseError(type, cause) == [tag |-> "DatabaseError", type |-> type, cause |-> cause]

CauseFail(e) == [tag |-> "Fail", error |-> e]
CauseDie(d) == [tag |-> "Die", defect |-> d]
CauseInterrupt == [tag |-> "Interrupt"]
CauseSequential(l, r) == [tag |-> "Sequential", left |-> l, right |-> r]

ExitSucceed(v) == [tag |-> "Success", value |-> v]
ExitFailCause(c) == [tag |-> "Failure", cause |-> c]
ExitFail(e) == ExitFailCause(CauseFail(e))
ExitDie(d) == ExitFailCause(CauseDie(d))

\* an operation fn: (client) => Promise
Returns(v) == [tag |-> "Returns", value |-> v]
Throws(x) == [tag |-> "Throws", error |-> x]

\* what a catch callback does: return a value or throw one
Returned(v) == [tag |-> "Returned", value |-> v]
Thrown(x) == [tag |-> "Thrown", error |-> x]

Codes == {"23505", "23503", "08000", "23502", "40001", "57014", "none"}
ThrownValues == {PgError(c) : c \in Codes} \cup {PlainError(c) : c \in Codes}
Operations == {Throws(x) : x \in ThrownValues} \cup {Returns(Val("v1")), Returns(Val("v2"))}

---------------------------------------------------------------------------
(* matchPgError *)

\* the classifier without its instanceof test: any value with a code is classified
matchPgError_NoInstanceof(error) ==
  LET code == IF "code" \in DOMAIN error THEN error.code ELSE "none"
  IN CASE code = "23505" -> DatabaseError("unique_violation", error)
       [] code = "23503" -> DatabaseError("foreign_key_violation", error)
       [] code = "08000" -> DatabaseError("connection_error", error)
       [] OTHER -> Null

matchPgError(error) ==
  IF error.tag = "PgError"
  THEN CASE error.code = "23505" -> DatabaseError("unique_violation", error)
         [] error.code = "23503" -> DatabaseError("foreign_key_violation", error)
         [] error.code = "08000" -> DatabaseError("connection_error", error)
         [] OTHER -> Null
  ELSE Null

---------------------------------------------------------------------------
(* Effect.tryPromise({try, catch}), execute and txWrapper *)

\* Effect.tryPromise fails with failSync(() => catch(e)): what catch returns is
\* the typed failure; what it throws is caught by the runtime as a defect.
failSync(c) == IF c.tag = "Returned" THEN ExitFail(c.value) ELSE ExitDie(c.error)

executeCatch(cause) ==
  LET error == matchPgError(cause)
  IN IF error # Null THEN Returned(error) ELSE Thrown(cause)

execute(fn) ==
  IF fn.tag = "Returns" THEN ExitSucceed(fn.value) ELSE failSync(executeCatch(fn.error))

\* the catch callback returning the unclassified value instead of rethrowing it
txWrapperCatch_ReturnsCause(cause) ==
  LET error == matchPgError(cause)
  IN IF error # Null THEN Returned(error) ELSE Returned(cause)

txWrapperCatch(cause) ==
  LET error == matchPgError(cause)
  IN IF error # Null THEN Returned(error) ELSE Thrown(cause)

txWrapper(fn) ==
  IF fn.tag = "Returns" THEN ExitSucceed(fn.value) ELSE failSync(txWrapperCatch(fn.error))

---------------------------------------------------------------------------
(* States of the parts a specification leaves alone *)

execIdle ==
  /\ op = None /\ matchOut = None /\ execOut = None /\ txOut = None

txIdle ==
  /\ outer = [state |-> "idle", exit |-> None]
  /\ drv = "idle" /\ drvPromise = [tag |-> "pending"] /\ cb = [tag |-> "none"]
  /\ catchRan = FALSE /\ result = None /\ nOps = 0
  /\ txWrites = {} /\ txPending = {} /\ nLate = 0 /\ txFailure = None /\ visible = {}

startIdle ==
  /\ pc = "ready" /\ pool = "open" /\ nFail = 0 /\ attempts = 1 /\ schedOut = 0
  /\ delay = 0 /\ logs = <<[level |-> "info", attempt |-> 0]>> /\ elapsed = 0

\* the scope of a service that is ready: the pool made once, its release registered
scopeReady ==
  /\ scope = "open" /\ finalizers = <<"pool.end">> /\ poolCreated = 1 /\ poolEnded = 0

\* the setupConnectionListeners tasks a caller may run
Tasks == {"t1", "t2"}

watchIdle ==
  /\ watcher = [t \in Tasks |-> [state |-> "idle", exit |-> None, received |-> <<>>]]
  /\ listeners = {} /\ nEvents = 0

queryIdle == queryCalls = <<>>

opsIdle ==
  /\ bodyMode = "sequential" /\ opsIssued = <<>> /\ opsInflight = {} /\ opsSettled = <<>>

---------------------------------------------------------------------------
(* SpecExec: matchPgError, execute and txWrapper applied to one operation *)

InitExec ==
  /\ op \in Operations
  /\ matchOut = None /\ execOut = None /\ txOut = None
  /\ txIdle /\ startIdle /\ scopeReady /\ watchIdle /\ queryIdle /\ opsIdle

\* the value the classifier is handed: what fn throws, else what it returns
Subject(o) == IF o.tag = "Throws" THEN o.error ELSE o.value

CallMatchPgError ==
  /\ matchOut = None
  /\ matchOut' = matchPgError(Subject(op))
  /\ UNCHANGED <<op, execOut, txOut, txVars, startVars, scopeVars, watchVars, queryVars, opsVars>>

CallExecute ==
  /\ execOut = None
  /\ execOut' = execute(op)
  /\ UNCHANGED <<op, matchOut, txOut, txVars, startVars, scopeVars, watchVars, queryVars, opsVars>>

CallTxWrapper ==
  /\ txOut = None
  /\ txOut' = txWrapper(op)
  /\ UNCHANGED <<op, matchOut, execOut, txVars, startVars, scopeVars, watchVars, queryVars, opsVars>>

NextExec == CallMatchPgError \/ CallExecute \/ CallTxWrapper

SpecExec == InitExec /\ [][NextExec]_vars

---------------------------------------------------------------------------
(* transaction *)

MaxOps == 2

Writes == {"w1", "w2"}
\* what the TransactionClient and the driver may throw
TxThrown == {PgError("23505"), PgError("08000"), PgError("23502"), PlainError("23505")}
BodyValues == {Val("v1"), Val("v2")}
BodyErrors == {UserError("e1"), Captured(UserError("e1")),
               DatabaseError("unique_violation", PgError("23505"))}
BodyDefects == {PlainError("none")}
\* the outcomes a body can reach of its own: a value, a typed failure, a defect,
\* a typed failure followed by a defect of a finalizer, an interruption of itself
BodyCauses ==
  {CauseFail(e) : e \in BodyErrors} \cup {CauseDie(d) : d \in BodyDefects}
  \cup {CauseSequential(CauseFail(e), CauseDie(d)) : e \in {UserError("e1")}, d \in BodyDefects}
  \cup {CauseInterrupt}
BodyExits == {ExitSucceed(v) : v \in BodyValues} \cup {ExitFailCause(c) : c \in BodyCauses}

\* Cause.isFailure: the cause contains a Fail
RECURSIVE isFailure(_)
isFailure(cause) ==
  CASE cause.tag = "Fail" -> TRUE
    [] cause.tag \in {"Sequential", "Parallel"} -> isFailure(cause.left) \/ isFailure(cause.right)
    [] OTHER -> FALSE

\* Cause.originalError: the object behind a captured proxy, any other value as it is
originalError(obj) == IF obj.tag = "Captured" THEN obj.original ELSE obj

\* onSuccess resuming with no value
ExitMatch_DropsValue(res) ==
  IF res.tag = "Success"
  THEN ExitSucceed(Val("undefined"))
  ELSE IF isFailure(res.cause)
       THEN ExitFail(originalError(res.cause))
       ELSE ExitDie(res.cause)

\* Exit.match(result, {onSuccess, onFailure}): the Effect handed to resume
ExitMatch(res) ==
  IF res.tag = "Success"
  THEN ExitSucceed(res.value)
  ELSE IF isFailure(res.cause)
       THEN ExitFail(originalError(res.cause))
       ELSE ExitDie(res.cause)

\* the Effect the .catch handler hands to resume
catchEffect(cause) ==
  LET error == matchPgError(cause)
  IN IF error # Null THEN ExitFail(error) ELSE ExitDie(cause)

\* resume of Effect.async: the first call sets the fiber's outcome, provided the
\* fiber is still suspended in the async; every other call is ignored
resume(fiber, effect) ==
  IF fiber.state = "waiting" THEN [state |-> "resumed", exit |-> effect] ELSE fiber

InitTx ==
  /\ txIdle /\ execIdle /\ startIdle /\ scopeReady /\ watchIdle /\ queryIdle /\ opsIdle

\* transaction(body): Effect.async registers, which calls db.transaction
transaction ==
  /\ outer.state = "idle"
  /\ outer' = [outer EXCEPT !.state = "waiting"]
  /\ drv' = "begin"
  /\ UNCHANGED <<drvPromise, cb, catchRan, result, nOps, txWrites, visible, txPending, nLate, txFailure, execVars, startVars, scopeVars, watchVars, queryVars, opsVars>>

\* the driver has begun the transaction and calls the callback, which builds
\* txWrapper and forks the body with runPromiseExit
DriverBegin ==
  /\ drv = "begin"
  /\ drv' = "callback"
  /\ cb' = [tag |-> "running"]
  /\ UNCHANGED <<outer, drvPromise, catchRan, result, nOps, txWrites, visible, txPending, nLate, txFailure, execVars, startVars, scopeVars, watchVars, queryVars, opsVars>>

\* the driver cannot begin: db.transaction rejects, the callback is never called
DriverBeginFail ==
  /\ drv = "begin"
  /\ \E x \in TxThrown :
       /\ drv' = "beginFailed"
       /\ drvPromise' = [tag |-> "rejected", reason |-> x]
  /\ UNCHANGED <<outer, cb, catchRan, result, nOps, txWrites, visible, txPending, nLate, txFailure, execVars, startVars, scopeVars, watchVars, queryVars, opsVars>>

\* execute(txWrapper) itself throws before it returns an Effect: the async
\* callback rejects
BodyThrowsSync ==
  /\ drv = "callback" /\ cb.tag = "running" /\ result = None /\ nOps = 0
  /\ \E x \in TxThrown :
       /\ cb' = [tag |-> "rejected", reason |-> x]
  /\ drv' = "rollback"
  /\ UNCHANGED <<outer, drvPromise, catchRan, result, nOps, txWrites, visible, txPending, nLate, txFailure, execVars, startVars, scopeVars, watchVars, queryVars, opsVars>>

\* the body fiber forked by runPromiseExit(execute(txWrapper)) has not ended:
\* the callback has forked it and its Exit is not there yet
BodyRunning == cb.tag \in {"running", "resolved"} /\ result = None

\* the operations fn handed to txWrapper: a write that resolves, or an
\* operation whose promise rejects
TxOperations == {Returns(Val(w)) : w \in Writes} \cup {Throws(x) : x \in TxThrown}

\* the Effect txWrapper(fn) is run: try: () => fn(tx) calls fn on the
\* TransactionClient, a write being sent at once, and Effect.tryPromise waits
\* for the promise. txWrapper tests nothing: it runs whenever a holder of the
\* capability runs it, the body or whoever the body handed it to, also after
\* the body has ended and the driver has committed or rolled back
TxWrapperCall(fn) ==
  /\ cb.tag # "none" /\ nOps < MaxOps
  /\ nOps' = nOps + 1
  /\ txPending' = txPending \cup {[id |-> nOps + 1, fn |-> fn]}
  /\ txWrites' = IF fn.tag = "Returns" THEN txWrites \cup {fn.value.id} ELSE txWrites
  /\ nLate' = IF BodyRunning THEN nLate ELSE nLate + 1
  /\ UNCHANGED <<outer, drv, drvPromise, cb, catchRan, result, visible, txFailure, execVars, startVars, scopeVars, watchVars, queryVars, opsVars>>

\* the promise of fn(tx) settles and the Effect completes with txWrapper(fn).
\* An error of the server (a pg.DatabaseError) aborts the PostgreSQL
\* transaction: its pending writes are lost whatever the driver does next.
\* A failure is handed to the body fiber, if one is running, which deals with
\* it in a later step
TxWrapperSettle(o) ==
  /\ o \in txPending
  /\ txPending' = txPending \ {o}
  /\ txWrites' = IF o.fn.tag = "Throws" /\ o.fn.error.tag = "PgError" THEN {} ELSE txWrites
  /\ txFailure' = IF BodyRunning /\ txWrapper(o.fn).tag = "Failure"
                  THEN txWrapper(o.fn) ELSE txFailure
  /\ UNCHANGED <<outer, drv, drvPromise, cb, catchRan, result, nOps, nLate, visible, execVars, startVars, scopeVars, watchVars, queryVars, opsVars>>

\* the body does not handle the failure of its operation: the body fiber ends
\* with it
BodyOpFailure ==
  /\ BodyRunning /\ txFailure # None
  /\ result' = txFailure
  /\ txFailure' = None
  /\ UNCHANGED <<outer, drv, drvPromise, cb, catchRan, nOps, txWrites, txPending, nLate, visible, execVars, startVars, scopeVars, watchVars, queryVars, opsVars>>

\* the body handles the failure of its operation (Effect.catchAll) and goes on
BodyCatch ==
  /\ BodyRunning /\ txFailure # None
  /\ txFailure' = None
  /\ UNCHANGED <<outer, drv, drvPromise, cb, catchRan, result, nOps, txWrites, txPending, nLate, visible, execVars, startVars, scopeVars, watchVars, queryVars, opsVars>>

\* the body ends of its own
BodyEnd ==
  /\ BodyRunning /\ txFailure = None
  /\ result' \in BodyExits
  /\ UNCHANGED <<outer, drv, drvPromise, cb, catchRan, nOps, txWrites, visible, txPending, nLate, txFailure, execVars, startVars, scopeVars, watchVars, queryVars, opsVars>>

\* the callback after its await of runPromiseExit: Exit.match calls resume,
\* then the callback returns and its promise resolves
CallbackMatch ==
  /\ drv = "callback" /\ cb.tag = "running" /\ result # None
  /\ outer' = resume(outer, ExitMatch(result))
  /\ cb' = [tag |-> "resolved"]
  /\ drv' = "commit"
  /\ UNCHANGED <<drvPromise, catchRan, result, nOps, txWrites, visible, txPending, nLate, txFailure, execVars, startVars, scopeVars, watchVars, queryVars, opsVars>>

\* the callback's promise resolved: the driver commits
DriverCommit ==
  /\ drv = "commit"
  /\ drv' = "committed"
  /\ visible' = visible \cup txWrites
  /\ drvPromise' = [tag |-> "resolved"]
  /\ UNCHANGED <<outer, cb, catchRan, result, nOps, txWrites, txPending, nLate, txFailure, execVars, startVars, scopeVars, watchVars, queryVars, opsVars>>

\* the commit fails: nothing is committed and db.transaction rejects
DriverCommitFail ==
  /\ drv = "commit"
  /\ \E x \in TxThrown : drvPromise' = [tag |-> "rejected", reason |-> x]
  /\ drv' = "rolledBack"
  /\ UNCHANGED <<outer, cb, catchRan, result, nOps, txWrites, visible, txPending, nLate, txFailure, execVars, startVars, scopeVars, watchVars, queryVars, opsVars>>

\* the callback's promise rejected: the driver rolls back and rejects with the
\* callback's reason, or with what the rollback itself throws
DriverRollback ==
  /\ drv = "rollback"
  /\ drv' = "rolledBack"
  /\ \/ drvPromise' = [tag |-> "rejected", reason |-> cb.reason]
     \/ \E x \in TxThrown : drvPromise' = [tag |-> "rejected", reason |-> x]
  /\ UNCHANGED <<outer, cb, catchRan, result, nOps, txWrites, visible, txPending, nLate, txFailure, execVars, startVars, scopeVars, watchVars, queryVars, opsVars>>

\* a .catch handler that swallows the rejection without calling resume
CatchHandler_NoResume ==
  /\ drvPromise.tag = "rejected" /\ ~catchRan
  /\ catchRan' = TRUE
  /\ UNCHANGED <<outer, drv, drvPromise, cb, result, nOps, txWrites, visible, txPending, nLate, txFailure, execVars, startVars, scopeVars, watchVars, queryVars, opsVars>>

\* .catch((cause) => resume(...)) on the promise of db.transaction
CatchHandler ==
  /\ drvPromise.tag = "rejected" /\ ~catchRan
  /\ outer' = resume(outer, catchEffect(drvPromise.reason))
  /\ catchRan' = TRUE
  /\ UNCHANGED <<drv, drvPromise, cb, result, nOps, txWrites, visible, txPending, nLate, txFailure, execVars, startVars, scopeVars, watchVars, queryVars, opsVars>>

\* the fiber of the caller goes on with the outcome resume was given
OuterObserve ==
  /\ outer.state = "resumed"
  /\ outer' = [outer EXCEPT !.state = "done"]
  /\ UNCHANGED <<drv, drvPromise, cb, catchRan, result, nOps, txWrites, visible, txPending, nLate, txFailure, execVars, startVars, scopeVars, watchVars, queryVars, opsVars>>

\* the caller is interrupted while suspended in Effect.async, whose register
\* function returns no canceller: the fiber ends at once, and nothing is told
\* to the body fiber, a root fiber of runPromiseExit, nor to the driver. The
\* interruption may also come after resume was called and before the fiber
\* has gone on: resume only queues the fiber, and the interruption replaces
\* the outcome resume was given
OuterInterrupt ==
  /\ outer.state \in {"waiting", "resumed"}
  /\ outer' = [state |-> "interrupted", exit |-> ExitFailCause(CauseInterrupt)]
  /\ UNCHANGED <<drv, drvPromise, cb, catchRan, result, nOps, txWrites, visible, txPending, nLate, txFailure, execVars, startVars, scopeVars, watchVars, queryVars, opsVars>>

Next ==
  \/ transaction \/ DriverBegin \/ DriverBeginFail
  \/ BodyThrowsSync \/ BodyEnd \/ BodyOpFailure \/ BodyCatch
  \/ \E fn \in TxOperations : TxWrapperCall(fn)
  \/ \E o \in txPending : TxWrapperSettle(o)
  \/ CallbackMatch \/ DriverCommit \/ DriverCommitFail \/ DriverRollback
  \/ CatchHandler \/ OuterObserve \/ OuterInterrupt

Spec == InitTx /\ [][Next]_vars

\* Spec with the progress the claim about completion assumes and the event
\* loop gives: the driver settles each of its steps, the body ends, and the
\* continuations of settled promises and of resume run. The caller need not
\* call transaction, and need not be interrupted.
SpecFair ==
  /\ InitTx /\ [][Next]_vars
  /\ WF_vars(DriverBegin \/ DriverBeginFail)
  /\ WF_vars(BodyEnd \/ BodyOpFailure \/ BodyCatch)
  /\ WF_vars(CallbackMatch)
  /\ WF_vars(DriverCommit \/ DriverCommitFail)
  /\ WF_vars(DriverRollback)
  /\ WF_vars(CatchHandler)
  /\ WF_vars(OuterObserve)

---------------------------------------------------------------------------
(* Claims about transaction, checked under Spec *)

\* C1: when the body of transaction ends in a typed failure or in a defect, the
\* driver does not commit: no write the body issued through the transaction
\* capability (all of them settled, none issued by anyone else) is visible.
C1_FailedBodyLeavesNoWrite ==
  (result.tag = "Failure" /\ result.cause.tag # "Interrupt" /\ nLate = 0 /\ txPending = {}) =>
    visible \cap txWrites = {}

\* C2: when the body succeeds with v, the callback resolves (it never rejects);
\* if the driver does not fail it commits, the commit making every write issued
\* on the transaction so far visible; and once the callback has returned, the
\* caller, unless it was interrupted, has been resumed with exactly Success(v).
C2_SuccessCommitsAndReturnsValue ==
  /\ [](result.tag = "Success" =>
          /\ cb.tag \in {"running", "resolved"}
          /\ (cb.tag = "resolved" /\ drvPromise.tag # "rejected") => drv \in {"commit", "committed"}
          /\ drvPromise.tag = "resolved" => drv = "committed"
          /\ (cb.tag = "resolved" /\ outer.state # "interrupted") =>
               (outer.state \in {"resumed", "done"} /\ outer.exit = ExitSucceed(result.value)))
  /\ [][(result.tag = "Success" /\ drv = "commit" /\ drv' = "committed") =>
          txWrites \subseteq visible']_vars

C2_Witness ==
  /\ result = ExitSucceed(Val("v2"))
  /\ drv = "committed" /\ txWrites = {"w1", "w2"} /\ visible = txWrites
  /\ outer = [state |-> "done", exit |-> ExitSucceed(Val("v2"))]

\* C3: the caller goes on with the success of transaction only after the
\* driver has committed, the writes of the transaction being visible.
C3_SuccessObservedOnlyAfterCommit ==
  (outer.state = "done" /\ outer.exit.tag = "Success" /\ nLate = 0) =>
    (drv = "committed" /\ txWrites \subseteq visible)

\* C4: when the body fails with the typed error e, transaction fails with
\* exactly e.
C4_TypedFailureIdentity ==
  (result.tag = "Failure" /\ outer.state \in {"resumed", "done"}) =>
    (result.cause.tag = "Fail" => outer.exit = ExitFail(result.cause.error))

\* whether a cause holds a defect
RECURSIVE hasDefect(_)
hasDefect(cause) ==
  CASE cause.tag = "Die" -> TRUE
    [] cause.tag \in {"Sequential", "Parallel"} -> hasDefect(cause.left) \/ hasDefect(cause.right)
    [] OTHER -> FALSE

\* C5: when the outcome of the body holds a defect, alone or together with a
\* typed failure, the outcome of transaction is a defect, never a typed failure.
C5_DefectStaysDefect ==
  (result.tag = "Failure" /\ outer.state \in {"resumed", "done"}) =>
    (hasDefect(result.cause) =>
       (outer.exit.tag = "Failure" /\ outer.exit.cause.tag = "Die"))

\* C6, for a body that has succeeded: when db.transaction rejects with x (the
\* commit has failed) and the .catch handler has run, the outcome of transaction
\* is the DatabaseError classified from x, or the defect x when x is not
\* classified; it is never a success.
C6_DriverRejectionReported ==
  (drvPromise.tag = "rejected" /\ catchRan /\ result.tag = "Success"
     /\ outer.state \in {"resumed", "done"}) =>
    /\ outer.exit = catchEffect(drvPromise.reason)
    /\ outer.exit.tag # "Success"

\* C7: once the caller is interrupted while the body is still running, the body
\* does not go on to a successful outcome (which the driver would commit).
C7_CancelledBodyDoesNotSucceed ==
  [][(outer.state = "interrupted" /\ result = None) =>
       (result' = None \/ result'.tag = "Failure")]_vars

\* C16: the callback of db.transaction returns only after the body has reached
\* its outcome, and once the callback has returned no operation is run on the
\* TransactionClient through the transaction capability any more.
C16_CallbackReturnsAfterBody ==
  [][/\ (cb.tag = "running" /\ cb'.tag = "resolved") => result # None
     /\ cb.tag = "resolved" => nOps' = nOps]_vars

\* the outer computation has completed
OuterCompleted == outer.state \in {"resumed", "done", "interrupted"}

---------------------------------------------------------------------------
(* Claims about the classifier and the capabilities, checked under SpecExec *)

DomainKind(code) ==
  CASE code = "23505" -> "unique_violation"
    [] code = "23503" -> "foreign_key_violation"
    [] code = "08000" -> "connection_error"

\* C8: matchPgError returns, for a driver error with code 23505, 23503 or
\* 08000, the DatabaseError of the matching type with that error as cause, and
\* null for a driver error with another code and for any other value.
C8_MatchPgErrorTable ==
  matchOut # None =>
    LET x == Subject(op)
    IN IF x.tag = "PgError" /\ x.code \in {"23505", "23503", "08000"}
       THEN matchOut = [tag |-> "DatabaseError", type |-> DomainKind(x.code), cause |-> x]
       ELSE matchOut = Null

C8_Witness ==
  /\ op = Throws(PgError("23503"))
  /\ matchOut = [tag |-> "DatabaseError", type |-> "foreign_key_violation",
                 cause |-> PgError("23503")]

\* the outcome the claim gives an operation that throws x
ClassifiedOutcome(x) ==
  IF x.tag = "PgError" /\ x.code \in {"23505", "23503", "08000"}
  THEN [tag |-> "Failure",
        cause |-> [tag |-> "Fail",
                   error |-> [tag |-> "DatabaseError", type |-> DomainKind(x.code), cause |-> x]]]
  ELSE [tag |-> "Failure", cause |-> [tag |-> "Die", defect |-> x]]

\* C9: an operation that throws x ends, through execute and through txWrapper
\* alike, in the typed failure DatabaseError when x is classified and in the
\* defect x otherwise.
C9_ThrownValueOutcome ==
  op.tag = "Throws" =>
    /\ execOut # None => execOut = ClassifiedOutcome(op.error)
    /\ txOut # None => txOut = ClassifiedOutcome(op.error)
    /\ (execOut # None /\ txOut # None) => execOut = txOut

C9_Witness ==
  /\ op = Throws(PlainError("23505"))
  /\ execOut = ExitDie(PlainError("23505"))
  /\ txOut = execOut

---------------------------------------------------------------------------
(* makeService: the pool and the startup probe *)

MaxFail == 3

SpacedMillis == 1250
JitterMinPct == 50
JitterMaxPct == 150
\* the random number of Schedule.jitteredWith, in hundredths: three samples of [0, 1]
JitterSamples == {0, 50, 100}

\* Schedule.jitteredWith(Schedule.spaced("1.25 seconds"), {min: 0.5, max: 1.5}):
\* the delay is d * min * (1 - random) + d * max * random
jitteredDelay(random) ==
  (SpacedMillis * (JitterMinPct * (100 - random) + JitterMaxPct * random)) \div 10000

logWarning(attempt) == [level |-> "warning", attempt |-> attempt]
logInfo == [level |-> "info", attempt |-> 0]

InitStartup ==
  /\ pc = "acquire" /\ pool = "none"
  /\ nFail \in 0..MaxFail
  /\ attempts = 0 /\ schedOut = 0 /\ delay = 0 /\ logs = <<>> /\ elapsed = 0
  /\ scope = "open" /\ finalizers = <<>> /\ poolCreated = 0 /\ poolEnded = 0
  /\ execIdle /\ txIdle /\ watchIdle /\ queryIdle /\ opsIdle

\* the pool made without its release: Effect.sync in place of Effect.acquireRelease
AcquirePool_NoRelease ==
  /\ pc = "acquire" /\ scope = "open"
  /\ pool' = "open"
  /\ poolCreated' = poolCreated + 1
  /\ pc' = "probe"
  /\ UNCHANGED <<scope, finalizers, poolEnded>>
  /\ UNCHANGED <<nFail, attempts, schedOut, delay, logs, elapsed, execVars, txVars, watchVars, queryVars, opsVars>>

\* Effect.acquireRelease(Effect.sync(() => new pg.Pool(...)), (pool) =>
\* Effect.promise(() => pool.end())): the pool is made and its release is
\* registered in the scope, in one uninterruptible step
AcquirePool ==
  /\ pc = "acquire" /\ scope = "open"
  /\ pool' = "open"
  /\ poolCreated' = poolCreated + 1
  /\ finalizers' = <<"pool.end">> \o finalizers
  /\ pc' = "probe"
  /\ UNCHANGED <<scope, poolEnded>>
  /\ UNCHANGED <<nFail, attempts, schedOut, delay, logs, elapsed, execVars, txVars, watchVars, queryVars, opsVars>>

\* Effect.tryPromise(() => pool.query("SELECT 1")): the thunk is called, the
\* query is sent and the build waits for its promise
ProbeCall ==
  /\ pc = "probe" /\ scope = "open"
  /\ UNCHANGED scopeVars
  /\ attempts' = attempts + 1
  /\ pc' = "probing"
  /\ UNCHANGED <<pool, nFail, schedOut, delay, logs, elapsed, execVars, txVars, watchVars, queryVars, opsVars>>

\* a failed probe swallowed instead of retried: the build goes on to the tap
ProbeFail_Ignored ==
  /\ pc = "probing" /\ attempts <= nFail /\ scope = "open"
  /\ UNCHANGED scopeVars
  /\ pc' = "tap"
  /\ UNCHANGED <<pool, nFail, attempts, schedOut, delay, logs, elapsed, execVars, txVars, watchVars, queryVars, opsVars>>

\* the promise of pool.query("SELECT 1") rejects: Effect.tryPromise fails and
\* Effect.retry steps the schedule
ProbeFail ==
  /\ pc = "probing" /\ attempts <= nFail /\ scope = "open"
  /\ UNCHANGED scopeVars
  /\ pc' = "retry"
  /\ UNCHANGED <<pool, nFail, attempts, schedOut, delay, logs, elapsed, execVars, txVars, watchVars, queryVars, opsVars>>

\* the schedule step without the warning of tapOutput
RetryStep_NoWarning ==
  /\ pc = "retry" /\ scope = "open"
  /\ UNCHANGED scopeVars
  /\ schedOut' = schedOut + 1
  /\ \E random \in JitterSamples : delay' = jitteredDelay(random)
  /\ pc' = "sleep"
  /\ UNCHANGED <<pool, nFail, attempts, logs, elapsed, execVars, txVars, watchVars, queryVars, opsVars>>

\* one step of the schedule: spaced never ends and outputs the repetitions so
\* far, tapOutput logs the warning with that output, the delay is jittered
RetryStep ==
  /\ pc = "retry" /\ scope = "open"
  /\ UNCHANGED scopeVars
  /\ logs' = Append(logs, logWarning(schedOut))
  /\ schedOut' = schedOut + 1
  /\ \E random \in JitterSamples : delay' = jitteredDelay(random)
  /\ pc' = "sleep"
  /\ UNCHANGED <<pool, nFail, attempts, elapsed, execVars, txVars, watchVars, queryVars, opsVars>>

\* the sleep is over: Effect.retry runs the probe again
RetryWake ==
  /\ pc = "sleep" /\ scope = "open"
  /\ UNCHANGED scopeVars
  /\ elapsed' = elapsed + delay
  /\ delay' = 0
  /\ pc' = "probe"
  /\ UNCHANGED <<pool, nFail, attempts, schedOut, logs, execVars, txVars, watchVars, queryVars, opsVars>>

\* the promise of pool.query("SELECT 1") resolves
ProbeSucceed ==
  /\ pc = "probing" /\ attempts > nFail /\ scope = "open"
  /\ UNCHANGED scopeVars
  /\ pc' = "tap"
  /\ UNCHANGED <<pool, nFail, attempts, schedOut, delay, logs, elapsed, execVars, txVars, watchVars, queryVars, opsVars>>

\* Effect.tap(() => Effect.logInfo(...)); the rest of makeService only defines
\* the capabilities and returns them
ServiceReady ==
  /\ pc = "tap" /\ scope = "open"
  /\ UNCHANGED scopeVars
  /\ logs' = Append(logs, logInfo)
  /\ pc' = "ready"
  /\ UNCHANGED <<pool, nFail, attempts, schedOut, delay, elapsed, execVars, txVars, watchVars, queryVars, opsVars>>

\* Layer.scoped(Database, makeService(config)): the scope the service was built
\* in is closed, at any moment of the build or after it. The build fiber is
\* interrupted where it stands (every step of the build needs the scope open);
\* a probe whose promise is pending is left behind, its settlement unobserved.
CloseScope ==
  /\ scope = "open"
  /\ scope' = "closing"
  /\ UNCHANGED <<finalizers, poolCreated, poolEnded>>
  /\ UNCHANGED <<startVars, execVars, txVars, watchVars, queryVars, opsVars>>

\* the closing scope runs the release registered by Effect.acquireRelease:
\* Effect.promise(() => pool.end())
RunFinalizer ==
  /\ scope = "closing" /\ finalizers # <<>>
  /\ Head(finalizers) = "pool.end"
  /\ pool' = "ended"
  /\ poolEnded' = poolEnded + 1
  /\ finalizers' = Tail(finalizers)
  /\ UNCHANGED <<scope, poolCreated>>
  /\ UNCHANGED <<pc, nFail, attempts, schedOut, delay, logs, elapsed, execVars, txVars, watchVars, queryVars, opsVars>>

\* every release has run: the scope is closed
ScopeClosed ==
  /\ scope = "closing" /\ finalizers = <<>>
  /\ scope' = "closed"
  /\ UNCHANGED <<finalizers, poolCreated, poolEnded>>
  /\ UNCHANGED <<startVars, execVars, txVars, watchVars, queryVars, opsVars>>

NextStartup ==
  \/ AcquirePool \/ ProbeCall \/ ProbeFail \/ RetryStep \/ RetryWake \/ ProbeSucceed \/ ServiceReady
  \/ CloseScope \/ RunFinalizer \/ ScopeClosed

SpecStartup == InitStartup /\ [][NextStartup]_vars

\* the log lines of a level
RECURSIVE CountLevel(_, _)
CountLevel(lines, level) ==
  IF lines = <<>> THEN 0
  ELSE (IF Head(lines).level = level THEN 1 ELSE 0) + CountLevel(Tail(lines), level)

\* the attempts that have failed, and those of them the schedule has stepped on
FailedAttempts == IF pc \in {"probing", "tap", "ready"} THEN attempts - 1 ELSE attempts
SteppedFailures == IF pc = "retry" THEN FailedAttempts - 1 ELSE FailedAttempts

\* C10: with a probe that fails N times and then succeeds, the service is ready
\* after exactly N + 1 attempts, with N warnings and one success line logged;
\* at every moment there is exactly one warning for each failed attempt the
\* retry has stepped on, and no success line before the probe has succeeded.
C10_ReadyAfterNPlusOneAttempts ==
  /\ pc = "ready" =>
       /\ attempts = nFail + 1
       /\ CountLevel(logs, "warning") = nFail
       /\ CountLevel(logs, "info") = 1
  /\ pc # "ready" =>
       /\ FailedAttempts <= nFail
       /\ CountLevel(logs, "info") = 0
  /\ CountLevel(logs, "warning") = SteppedFailures

C10_Witness ==
  /\ pc = "ready" /\ nFail = 3 /\ attempts = 4
  /\ CountLevel(logs, "warning") = 3 /\ CountLevel(logs, "info") = 1

\* C11: the service is never ready while the probe keeps failing: the build is
\* past the probe only if an attempt succeeded (the attempts are one more than
\* the failures), it stays in the retry loop otherwise, and it never ends in a
\* typed error or a defect.
C11_ReadyOnlyAfterProbeSucceeded ==
  /\ pc \in {"acquire", "probe", "probing", "retry", "sleep", "tap", "ready"}
  /\ pc \in {"tap", "ready"} => attempts = nFail + 1
  /\ attempts <= nFail => pc \in {"acquire", "probe", "probing", "retry", "sleep"}

\* the probe has failed three times and the build is still in the retry loop
C11_Witness == attempts = 3 /\ nFail = 3 /\ pc = "sleep" /\ scope = "open"

\* C12: the pool is created once, and pool.end() runs exactly once on every
\* exit path of the scope, an interruption in the retry loop included: never
\* while the scope is open, once for the pool made when the scope is closed.
C12_PoolEndedExactlyOnce ==
  /\ poolCreated <= 1
  /\ pc # "acquire" => poolCreated = 1
  /\ poolEnded <= poolCreated
  /\ scope = "open" => poolEnded = 0 /\ pool # "ended"
  /\ scope = "closed" => poolEnded = poolCreated /\ pool # "open"

\* the scope was closed in the retry loop, while a probe sent after a failed
\* one was still pending, and the pool ended
C12_Witness ==
  scope = "closed" /\ pc = "probing" /\ attempts >= 2 /\ poolEnded = 1 /\ pool = "ended"

---------------------------------------------------------------------------
(* SpecWatch: setupConnectionListeners, run by up to two callers on a ready
   service, with the pool's "error" events and the scope of the service *)

MaxEvents == 2

\* the error objects the pool emits with its "error" event
PoolErrors == {[tag |-> "Error", message |-> "m1"], [tag |-> "Error", message |-> "m2"]}

\* new DatabaseConnectionLostError({cause: error, message: error.message})
DatabaseConnectionLostError(error) ==
  [tag |-> "DatabaseConnectionLostError", cause |-> error, message |-> error.message]

\* a listener that resumes on every event with the error of that event, the
\* last call winning
onPoolError_LastWins(task, error) ==
  [state |-> IF task.state = "waiting" THEN "resumed" ELSE task.state,
   exit |-> ExitFail(DatabaseConnectionLostError(error)),
   received |-> Append(task.received, error)]

\* the listener of pool.on("error", ...): resume(Effect.fail(new
\* DatabaseConnectionLostError(...))); only the first resume of an
\* Effect.async counts
onPoolError(task, error) ==
  LET fiber == resume([state |-> task.state, exit |-> task.exit],
                      ExitFail(DatabaseConnectionLostError(error)))
  IN [state |-> fiber.state, exit |-> fiber.exit,
      received |-> Append(task.received, error)]

InitWatch ==
  /\ execIdle /\ txIdle /\ startIdle /\ scopeReady /\ watchIdle /\ queryIdle /\ opsIdle

\* a caller runs setupConnectionListeners: the register function of
\* Effect.async subscribes a listener with pool.on("error", ...) and the task
\* waits; concurrently the info line is logged. The task tests nothing: it
\* subscribes also when the scope of the service is closing or closed
StartWatcher(t) ==
  /\ pc = "ready"
  /\ watcher[t].state = "idle"
  /\ watcher' = [watcher EXCEPT ![t].state = "waiting"]
  /\ listeners' = listeners \cup {t}
  /\ logs' = Append(logs, logInfo)
  /\ UNCHANGED <<nEvents, pc, pool, nFail, attempts, schedOut, delay, elapsed>>
  /\ UNCHANGED <<execVars, txVars, scopeVars, queryVars, opsVars>>

\* the pool emits "error": every listener subscribed is called with the error
PoolError(error) ==
  /\ pool = "open" /\ nEvents < MaxEvents
  /\ nEvents' = nEvents + 1
  /\ watcher' = [t \in Tasks |->
                   IF t \in listeners THEN onPoolError(watcher[t], error) ELSE watcher[t]]
  /\ UNCHANGED <<listeners, startVars, execVars, txVars, scopeVars, queryVars, opsVars>>

\* the fiber of a task that was resumed goes on: the task ends with the failure
WatcherEnd(t) ==
  /\ watcher[t].state = "resumed"
  /\ watcher' = [watcher EXCEPT ![t].state = "failed"]
  /\ UNCHANGED <<listeners, nEvents, startVars, execVars, txVars, scopeVars, queryVars, opsVars>>

\* the caller interrupts a task. While Effect.async waits, it ends by the
\* interruption and the canceller returned by the register function runs,
\* Effect.sync(() => pool.removeAllListeners("error")). After the listener has
\* called resume and before the task's fiber has gone on, the fiber running
\* Effect.async ends with the failure it was resumed with, so the canceller is
\* not run and the listeners stay, and the task ends interrupted
WatcherInterrupt(t) ==
  /\ watcher[t].state \in {"waiting", "resumed"}
  /\ watcher' = [watcher EXCEPT ![t].state = "interrupted",
                                 ![t].exit = ExitFailCause(CauseInterrupt)]
  /\ listeners' = IF watcher[t].state = "waiting" THEN {} ELSE listeners
  /\ UNCHANGED <<nEvents, startVars, execVars, txVars, scopeVars, queryVars, opsVars>>

NextWatch ==
  \/ \E t \in Tasks : StartWatcher(t)
  \/ \E error \in PoolErrors : PoolError(error)
  \/ \E t \in Tasks : WatcherEnd(t)
  \/ \E t \in Tasks : WatcherInterrupt(t)
  \/ CloseScope \/ RunFinalizer \/ ScopeClosed

SpecWatch == InitWatch /\ [][NextWatch]_vars

\* the tasks that are running
RunningWatchers == {t \in Tasks : watcher[t].state = "waiting"}

\* C13: a setupConnectionListeners task completes only by failing with a
\* DatabaseConnectionLostError whose cause is the first pool error event it
\* received; later events leave that outcome as it is; a task that has
\* received no event has not completed, and no task ever succeeds.
C13_FailsOnceWithFirstEvent ==
  \A t \in Tasks :
    /\ watcher[t].state \in {"idle", "waiting", "resumed", "failed", "interrupted"}
    /\ watcher[t].state \in {"resumed", "failed"} =>
         /\ watcher[t].received # <<>>
         /\ watcher[t].exit = ExitFail(DatabaseConnectionLostError(Head(watcher[t].received)))
    /\ watcher[t].received = <<>> => watcher[t].state \notin {"resumed", "failed"}
    /\ watcher[t].state = "waiting" => watcher[t].exit = None /\ watcher[t].received = <<>>
    /\ watcher[t].exit.tag # "Success"

\* a task has failed and then received a second, different event
C13_Witness ==
  \E t \in Tasks :
    /\ watcher[t].state = "resumed"
    /\ Len(watcher[t].received) = 2
    /\ watcher[t].received[1] # watcher[t].received[2]

\* C14: once the service is torn down and no watcher task is running any more,
\* no error listener registered by a watcher remains on the pool.
C14_NoListenerAfterTeardown ==
  (scope = "closed" /\ RunningWatchers = {}) => listeners = {}

\* C19: every watcher task that is running is subscribed to the pool's error
\* event, whatever happened to the other task.
C19_RunningWatcherSubscribed ==
  \A t \in RunningWatchers : t \in listeners

\* C20: the error listeners on the pool are never more than the watcher tasks
\* that are running.
C20_ListenersAtMostRunning ==
  Cardinality(listeners) <= Cardinality(RunningWatchers)

---------------------------------------------------------------------------
(* SpecQuery: the callable built by makeQuery *)

MaxCalls == 2

\* a capability: the ambient execute of the service, or the capability a
\* transaction hands to its body
Cap(name) == [tag |-> "Cap", name |-> name]
ambientExecute == Cap("execute")

QueryInputs == {Val(1), Val(2), Val(3)}
\* the tx argument: left out (undefined), null, or the capability of a transaction
TxArgs == {None, Null, Cap("txA"), Cap("txB")}

\* a ?? b
nullish(a, b) == IF a = None \/ a = Null THEN b ELSE a

\* the callable always handing the ambient execute to the query function
makeQuery_IgnoresTx(input, tx) ==
  <<[execute |-> ambientExecute, input |-> input]>>

\* (input, tx) => queryFn(tx ?? execute, input): the invocations of queryFn
\* one call of the callable makes, each with its arguments
makeQuery(input, tx) ==
  <<[execute |-> nullish(tx, ambientExecute), input |-> input]>>

InitQuery ==
  /\ execIdle /\ txIdle /\ startIdle /\ scopeReady /\ watchIdle /\ queryIdle /\ opsIdle

\* a caller calls the callable with an input and, optionally, a tx
CallQuery(input, tx) ==
  /\ Len(queryCalls) < MaxCalls
  /\ queryCalls' = Append(queryCalls,
                           [input |-> input, tx |-> tx, queryFn |-> makeQuery(input, tx)])
  /\ UNCHANGED <<execVars, txVars, startVars, scopeVars, watchVars, opsVars>>

NextQuery == \E input \in QueryInputs, tx \in TxArgs : CallQuery(input, tx)

SpecQuery == InitQuery /\ [][NextQuery]_vars

\* C15: every call of the callable built by makeQuery invokes the query
\* function exactly once, with the input of the call, and with the transaction
\* capability when one was passed, the ambient execute when none was; never
\* with the ambient execute when a transaction capability was passed.
C15_QueryFnCalledOnceWithCapability ==
  \A k \in 1..Len(queryCalls) :
    LET call == queryCalls[k]
    IN /\ Len(call.queryFn) = 1
       /\ call.queryFn[1].input = call.input
       /\ call.tx.tag = "Cap" => call.queryFn[1].execute = call.tx
       /\ call.tx.tag # "Cap" => call.queryFn[1].execute = ambientExecute
       /\ call.tx.tag = "Cap" => call.queryFn[1].execute # ambientExecute

\* one call with a transaction capability and one without, on different inputs
C15_Witness ==
  /\ Len(queryCalls) = 2
  /\ queryCalls[1].tx = Cap("txA") /\ queryCalls[1].input = Val(1)
  /\ queryCalls[2].tx = None /\ queryCalls[2].input = Val(2)

---------------------------------------------------------------------------
(* SpecOps: the operations the body of one transaction issues through
   txWrapper, one after the other or from concurrent branches *)

MaxBranches == 3

\* the operations of the body
OpIds == 1..MaxBranches

\* the elements of a sequence
Range(seq) == {seq[k] : k \in 1..Len(seq)}

\* the callback of db.transaction is running and has forked the body
InitOps ==
  /\ outer = [state |-> "waiting", exit |-> None]
  /\ drv = "callback" /\ drvPromise = [tag |-> "pending"] /\ cb = [tag |-> "running"]
  /\ catchRan = FALSE /\ result = None /\ nOps = 0
  /\ txWrites = {} /\ txPending = {} /\ nLate = 0 /\ txFailure = None /\ visible = {}
  /\ bodyMode \in {"sequential", "concurrent"}
  /\ opsIssued = <<>> /\ opsInflight = {} /\ opsSettled = <<>>
  /\ execIdle /\ startIdle /\ scopeReady /\ watchIdle /\ queryIdle

\* the Effect txWrapper(fn) of operation k has completed: Effect.tryPromise
\* completes when the promise of fn(tx) has settled
txEffectDone(k) == k \in Range(opsIssued) /\ k \notin opsInflight

\* the body runs the Effect txWrapper(fn) of operation k: try: () => fn(tx)
\* calls fn on the TransactionClient at once, whatever else is pending on it.
\* A body chaining its operations runs the next one when the one before has
\* completed; a body with concurrent branches runs them in any order
IssueOp(k) ==
  /\ cb.tag = "running" /\ result = None
  /\ k \notin Range(opsIssued)
  /\ bodyMode = "sequential" =>
       (k = Len(opsIssued) + 1 /\ \A j \in Range(opsIssued) : txEffectDone(j))
  /\ opsIssued' = Append(opsIssued, k)
  /\ opsInflight' = opsInflight \cup {k}
  /\ UNCHANGED <<bodyMode, opsSettled, execVars, txVars, startVars, scopeVars, watchVars, queryVars>>

\* the promise of fn(tx) settles, and the Effect completes with its outcome
SettleOp(k) ==
  /\ k \in opsInflight
  /\ opsInflight' = opsInflight \ {k}
  /\ opsSettled' = Append(opsSettled, [id |-> k, exit |-> txWrapper(Returns(Val(k)))])
  /\ UNCHANGED <<bodyMode, opsIssued, execVars, txVars, startVars, scopeVars, watchVars, queryVars>>

NextOps ==
  \/ \E k \in OpIds : IssueOp(k)
  \/ \E k \in OpIds : SettleOp(k)

SpecOps == InitOps /\ [][NextOps]_vars

\* C17: the operations issued through the capability of one transaction run on
\* the TransactionClient one at a time and in the order the body issues them:
\* never two of them in flight, and they complete in the order of issue, also
\* for a body that issues them from concurrent branches.
C17_OneOperationInFlight ==
  /\ Cardinality(opsInflight) <= 1
  /\ \A k \in 1..Len(opsSettled) : opsSettled[k].id = opsIssued[k]

====
